---- MODULE Spec2Model ----
(***************************************************************************)
(* Model of docker/schedule/scheduler.py: a single-threaded scheduler that *)
(* reads scheduling labels of compose services, seeds one sched event per  *)
(* accepted service and then runs sched.scheduler.run(), where every       *)
(* runner executes its service and re-enters a runner in its finally       *)
(* block.  Time is in whole seconds; clock 0 is an instant hh:00:00.       *)
(***************************************************************************)
EXTENDS Integers, Sequences, FiniteSets, TLC

\* ------------------------------------------------------------------ bounds
MaxServices == 2
MaxClock == 130
\* run_task calls are counted per service up to MaxRuns, where the count stays
MaxRuns == 4
\* a unit declares at most MaxLabels labels
MaxLabels == 2
\* seconds per cron minute (croniter times are epoch seconds)
MinuteSecs == 60

\* how long one `docker compose run` may take, in seconds
ExecDurations == {0, 10, 70}

\* results of one run_task call
Outcomes == {"exit0", "nonzero", "notfound", "error"}

\* label values: strings are tuples of tokens so that parsing is computed
CronStrs ==
    { <<>>,
      <<"bad">>,
      <<"*", "*", "*", "*", "*">>,
      <<"*/2", "*", "*", "*", "*">> }

IntervalStrs ==
    { <<>>, <<"x">>, <<"0">>, <<"3", "0">>, <<"6", "0">> }

CRON_KEY == "scheduler.cron"
INTERVAL_KEY == "scheduler.interval"

\* values of units that carry both keys: an empty, a malformed and a valid
\* expression, each with a non-numeric and with a valid interval
BothStrs ==
    { <<>>, <<"bad">>, <<"*", "*", "*", "*", "*">> } \X { <<"x">>, <<"3", "0">> }

\* a labels_dict: a mapping defined on any subset of the two recognised keys
LabelDicts ==
    { [k \in {} |-> <<>>] }
    \cup { [k \in {CRON_KEY} |-> c] : c \in CronStrs }
    \cup { [k \in {INTERVAL_KEY} |-> i] : i \in IntervalStrs }
    \cup { [k \in {CRON_KEY, INTERVAL_KEY} |-> IF k = CRON_KEY THEN c[1] ELSE c[2]]
             : c \in BothStrs }

\* compose_config["services"]: service i of the file has name i
Configs == UNION { [1..n -> LabelDicts] : n \in 0..MaxServices }

VARIABLES
    services,                  \* labels_dict of every service, in file order
    idx,                       \* position of the loading loop (line 83)
    clock,                     \* time.time()
    pc,                        \* "labels","load","loop","sleep","exec","resched",
                               \* "done","exited"
    queue,                     \* scheduler._queue, in insertion order
    interval,                  \* closure cell `interval` of schedule_tasks
    periodic_cron_runner,      \* closure cell: the cron runner defined last
    periodic_interval_runner,  \* closure cell: the interval runner defined last
    cur,                       \* the event popped last (the running runner's arguments)
    executing,                 \* services whose container is running
    outcome,                   \* result of the run_task call that just returned
    accepted,                  \* services that were seeded, with their policy
    errors,                    \* services for which load logged an error
    started,                   \* services run_task was called for
    lastEnd,                   \* clock at the last return of run_task
    curStart,                  \* clock at the last call of run_task
    last,                      \* the last scheduler.enter call
    signalled,                 \* a SIGINT/SIGTERM was delivered to the handler
    exit_status,               \* process exit status, NoStatus while running
    runs,                      \* run_task calls per service so far, up to MaxRuns
    declared,                  \* the labels the compose file declares for a unit
    labels_raw                 \* config.get("labels", {}) of that unit

vars == << services, idx, clock, pc, queue, interval, periodic_cron_runner,
           periodic_interval_runner, cur, executing, outcome, accepted, errors,
           started, lastEnd, curStart, last, signalled, exit_status, runs,
           declared, labels_raw >>

labelVars == << declared, labels_raw >>

NoStatus == -1
NoService == 0

\* ------------------------------------------------------------ pure helpers
Max(a, b) == IF a >= b THEN a ELSE b

\* `if cron_str:` / `elif interval_str:` on labels_dict.get(key)
Truthy(labels_dict, key) ==
    key \in DOMAIN labels_dict /\ labels_dict[key] # <<>>

DigitChars == <<"0", "1", "2", "3", "4", "5", "6", "7", "8", "9">>
DigitSet == {DigitChars[i] : i \in 1..10}
IsDigit(c) == c \in DigitSet
DigitVal(c) == (CHOOSE i \in 1..10 : DigitChars[i] = c) - 1

RECURSIVE DigitsValue(_, _)
DigitsValue(s, acc) ==
    IF s = <<>> THEN acc ELSE DigitsValue(Tail(s), acc * 10 + DigitVal(Head(s)))

\* int(interval_str): optional sign, then one or more digits; else ValueError
ParseInt(s) ==
    LET body == IF s # <<>> /\ Head(s) \in {"-", "+"} THEN Tail(s) ELSE s
        neg == s # <<>> /\ Head(s) = "-"
    IN IF body # <<>> /\ \A i \in 1..Len(body) : IsDigit(body[i])
       THEN [ok |-> TRUE,
             val |-> IF neg THEN 0 - DigitsValue(body, 0) ELSE DigitsValue(body, 0)]
       ELSE [ok |-> FALSE, val |-> 0]

\* the minute field of a cron expression, on minute-of-hour m
MinuteFields == {"*", "*/2", "*/5"}
MinuteMatches(field, m) ==
    CASE field = "*" -> TRUE
      [] field = "*/2" -> m % 2 = 0
      [] field = "*/5" -> m % 5 = 0
      [] OTHER -> FALSE

\* croniter.is_valid
is_valid(cron_str) ==
    /\ Len(cron_str) = 5
    /\ cron_str[1] \in MinuteFields
    /\ \A i \in 2..5 : cron_str[i] = "*"

\* croniter(c_str, now).get_next(float): walk minute boundaries after now
RECURSIVE CronWalk(_, _)
CronWalk(c_str, t) ==
    IF MinuteMatches(c_str[1], (t \div MinuteSecs) % 60)
    THEN t
    ELSE CronWalk(c_str, t + MinuteSecs)

get_next_at_or_after(c_str, now) ==
    CronWalk(c_str, ((now + MinuteSecs - 1) \div MinuteSecs) * MinuteSecs)

get_next(c_str, now) ==
    CronWalk(c_str, (now \div MinuteSecs) * MinuteSecs + MinuteSecs)

\* ---------------------------------------------------------------- events
Event(time, kind, s_name, c_str, scheduled_time) ==
    [time |-> time, priority |-> 1, kind |-> kind, s_name |-> s_name,
     c_str |-> c_str, scheduled_time |-> scheduled_time]

NoEvent == Event(0, "none", NoService, <<>>, 0)
NoRunner == [s_name |-> NoService, c_str |-> <<>>, scheduled_time |-> 0]
NoEnter ==
    [op |-> "none", by |-> NoService, ref |-> 0, prev |-> 0, c_str |-> <<>>,
     ev |-> NoEvent]

\* scheduler.enter(delay, 1, action): time = timefunc() + delay, FIFO among ties
enter(q, now, delay, kind, runner, scheduled_time) ==
    Append(q, Event(now + delay, kind, runner.s_name, runner.c_str, scheduled_time))

\* index of the event heapq would pop: least (time, priority), oldest first
HeadIdxLifo(q) ==
    CHOOSE i \in 1..Len(q) :
        \A j \in 1..Len(q) :
            \/ q[i].time < q[j].time
            \/ q[i].time = q[j].time /\ q[i].priority < q[j].priority
            \/ q[i].time = q[j].time /\ q[i].priority = q[j].priority /\ i >= j

HeadIdx(q) ==
    CHOOSE i \in 1..Len(q) :
        \A j \in 1..Len(q) :
            \/ q[i].time < q[j].time
            \/ q[i].time = q[j].time /\ q[i].priority < q[j].priority
            \/ q[i].time = q[j].time /\ q[i].priority = q[j].priority /\ i <= j

RemoveAt(q, i) == [j \in 1..(Len(q) - 1) |-> IF j < i THEN q[j] ELSE q[j + 1]]

\* ------------------------------------------------------------------ load
\* lines 99 and 124: which branch of the loop body a service takes
PolicyOfIntervalFirst(labels_dict) ==
    IF Truthy(labels_dict, INTERVAL_KEY) THEN "interval"
    ELSE IF Truthy(labels_dict, CRON_KEY) THEN "cron"
    ELSE "none"

PolicyOf(labels_dict) ==
    IF Truthy(labels_dict, CRON_KEY) THEN "cron"
    ELSE IF Truthy(labels_dict, INTERVAL_KEY) THEN "interval"
    ELSE "none"

\* lines 125-132: the parsed interval is kept only when it is positive
IntervalAcceptedNonNegative(p) == p.ok /\ p.val >= 0

IntervalAccepted(p) == p.ok /\ p.val > 0

\* line 145: the delay of the first event of an interval entry
IntervalSeedDelayOnePeriod(n) == n

IntervalSeedDelay(n) == 0

\* lines 102, 129, 132: `continue` goes on with the next service
AfterServiceBreak(i, rejected) == IF rejected THEN Len(services) + 1 ELSE i + 1

AfterService(i, rejected) == i + 1

\* the state schedule_tasks starts from, whatever the compose file holds
Boot ==
    /\ idx = 1
    /\ clock = 0
    /\ queue = <<>>
    /\ interval = 0
    /\ periodic_cron_runner = NoRunner
    /\ periodic_interval_runner = NoRunner
    /\ cur = NoEvent
    /\ executing = {}
    /\ outcome = "none"
    /\ accepted = {}
    /\ errors = {}
    /\ started = {}
    /\ lastEnd = 0
    /\ curStart = 0
    /\ last = NoEnter
    /\ signalled = FALSE
    /\ exit_status = NoStatus

NoLabels == [form |-> "none", items |-> <<>>]

Init ==
    /\ services \in Configs
    /\ pc = "load"
    /\ runs = [s \in 1..Len(services) |-> 0]
    /\ declared = <<>>
    /\ labels_raw = NoLabels
    /\ Boot

\* one iteration of `for service_name, config in services.items()` (lines 83-145)
LoadService ==
    /\ pc = "load"
    /\ idx <= Len(services)
    /\ LET service_name == idx
           labels_dict == services[idx]
           policy == PolicyOf(labels_dict)
       IN
       \/ /\ policy = "cron"
          /\ LET cron_str == labels_dict[CRON_KEY]
                 runner == [s_name |-> service_name, c_str |-> cron_str,
                            scheduled_time |-> 0]
             IN IF ~is_valid(cron_str)
                THEN /\ errors' = errors \cup {service_name}
                     /\ idx' = AfterService(idx, TRUE)
                     /\ UNCHANGED << queue, periodic_cron_runner, accepted, last >>
                ELSE LET now == clock
                         delay == Max(0, get_next(cron_str, now) - now)
                         q == enter(queue, clock, delay, "cron", runner, 0)
                     IN /\ periodic_cron_runner' = runner
                        /\ queue' = q
                        /\ accepted' = accepted \cup
                               {[s_name |-> service_name, kind |-> "cron"]}
                        /\ last' = [op |-> "seed", by |-> service_name, ref |-> now,
                                    prev |-> 0, c_str |-> cron_str,
                                    ev |-> q[Len(q)]]
                        /\ idx' = AfterService(idx, FALSE)
                        /\ UNCHANGED errors
          /\ UNCHANGED << interval, periodic_interval_runner >>
       \/ /\ policy = "interval"
          /\ LET p == ParseInt(labels_dict[INTERVAL_KEY])
                 runner == [s_name |-> service_name, c_str |-> <<>>,
                            scheduled_time |-> clock]
             IN /\ interval' = IF p.ok THEN p.val ELSE interval
                /\ IF ~IntervalAccepted(p)
                   THEN /\ errors' = errors \cup {service_name}
                        /\ idx' = AfterService(idx, TRUE)
                        /\ UNCHANGED << queue, periodic_interval_runner, accepted,
                                        last >>
                   ELSE LET q == enter(queue, clock, IntervalSeedDelay(p.val),
                                       "interval", runner, runner.scheduled_time)
                        IN /\ periodic_interval_runner' = runner
                           /\ queue' = q
                           /\ accepted' = accepted \cup
                                  {[s_name |-> service_name, kind |-> "interval"]}
                           /\ last' = [op |-> "seed", by |-> service_name,
                                       ref |-> clock, prev |-> 0, c_str |-> <<>>,
                                       ev |-> q[Len(q)]]
                           /\ idx' = AfterService(idx, FALSE)
                           /\ UNCHANGED errors
          /\ UNCHANGED periodic_cron_runner
       \/ /\ policy = "none"
          /\ idx' = AfterService(idx, FALSE)
          /\ UNCHANGED << queue, interval, periodic_cron_runner,
                          periodic_interval_runner, accepted, errors, last >>
    /\ UNCHANGED << services, clock, pc, cur, executing, outcome, started, lastEnd,
                    curStart, signalled, exit_status, runs, labelVars >>

\* lines 147-150: run the scheduler unless nothing was seeded
StartRun ==
    /\ pc = "load"
    /\ idx > Len(services)
    /\ IF queue # <<>>
       THEN pc' = "loop" /\ UNCHANGED exit_status
       ELSE pc' = "done" /\ exit_status' = 0
    /\ UNCHANGED << services, idx, clock, queue, interval, periodic_cron_runner,
                    periodic_interval_runner, cur, executing, outcome, accepted,
                    errors, started, lastEnd, curStart, last, signalled, runs,
                    labelVars >>

\* ------------------------------------------------------------- the runners
\* finally blocks of the runners (lines 111-117 and 141-144): the event the
\* runner that was called with `ev` enters at time `now`.  c_str and
\* scheduled_time are arguments of the running call; `interval` and the
\* runner that is entered are read from the enclosing scope when it runs.
CronReferencePrevFire(ev, now) == ev.time

\* line 113: the cron runner computes its next run from the clock it reads
CronReference(ev, now) == now

ReenterEvent(ev, now) ==
    IF ev.kind = "cron"
    THEN LET next_run == get_next(ev.c_str, CronReference(ev, now))
             delay == Max(0, next_run - now)
         IN enter(<<>>, now, delay, "cron", periodic_cron_runner, 0)[1]
    ELSE LET next_run_time == ev.scheduled_time + interval
             delay == Max(0, next_run_time - now)
         IN enter(<<>>, now, delay, "interval", periodic_interval_runner,
                  next_run_time)[1]

EnterRecord(ev, now) ==
    [op |-> "resched", by |-> ev.s_name, ref |-> now, prev |-> ev.scheduled_time,
     c_str |-> ev.c_str, ev |-> ReenterEvent(ev, now)]

\* try/except/finally of the runners and of run_task (lines 69-72, 107-111):
\* where control goes after run_task, for each result
RunnerNextOnSuccess(o) == IF o \in {"exit0", "nonzero"} THEN "resched" ELSE "loop"

RunnerNextUnlessNotFound(o) == IF o = "notfound" THEN "loop" ELSE "resched"

RunnerNext(o) == "resched"

\* lines 47-67: run_task returns only after the child process has exited
AfterRunTaskNoWait(ex, s_name) == ex

AfterRunTask(ex, s_name) == ex \ {s_name}

\* line 158: exit(0) raises SystemExit out of whatever the process was doing
ShutdownPcLogOnly(p) == p

ShutdownPc(p) == "exited"

\* one iteration of the loop of sched.scheduler.run() (line 148)
SchedRun ==
    /\ pc = "loop"
    /\ IF queue = <<>>
       THEN /\ pc' = "done"
            /\ exit_status' = 0
            /\ UNCHANGED << queue, cur, executing, started, curStart, outcome,
                            runs >>
       ELSE LET i == HeadIdx(queue) IN
            IF queue[i].time > clock
            THEN /\ pc' = "sleep"
                 /\ outcome' = "none"
                 /\ UNCHANGED << queue, cur, executing, started, curStart,
                                 exit_status, runs >>
            ELSE /\ pc' = "exec"
                 /\ cur' = queue[i]
                 /\ queue' = RemoveAt(queue, i)
                 /\ executing' = executing \cup {queue[i].s_name}
                 /\ started' = started \cup {queue[i].s_name}
                 /\ curStart' = clock
                 /\ outcome' = "none"
                 /\ runs' = [runs EXCEPT ![queue[i].s_name] =
                                 IF @ < MaxRuns THEN @ + 1 ELSE @]
                 /\ UNCHANGED exit_status
    /\ UNCHANGED << services, idx, clock, interval, periodic_cron_runner,
                    periodic_interval_runner, accepted, errors, lastEnd, last,
                    signalled, labelVars >>

\* delayfunc(time - now) returns: time.sleep until the head event is due
Wake ==
    /\ pc = "sleep"
    /\ queue[HeadIdx(queue)].time <= MaxClock
    /\ clock' = Max(clock, queue[HeadIdx(queue)].time)
    /\ pc' = "loop"
    /\ UNCHANGED << services, idx, queue, interval, periodic_cron_runner,
                    periodic_interval_runner, cur, executing, outcome, accepted,
                    errors, started, lastEnd, curStart, last, signalled,
                    exit_status, runs, labelVars >>

\* run_task(s_name, project_name) runs the container to its end (lines 19-72),
\* which takes one of the times in `durations`
RunTaskFor(durations) ==
    /\ pc = "exec"
    /\ \E o \in Outcomes, d \in durations :
         /\ clock + d <= MaxClock
         /\ clock' = clock + d
         /\ outcome' = o
         /\ pc' = RunnerNext(o)
    /\ executing' = AfterRunTask(executing, cur.s_name)
    /\ lastEnd' = clock'
    /\ UNCHANGED << services, idx, queue, interval, periodic_cron_runner,
                    periodic_interval_runner, cur, accepted, errors, started,
                    curStart, last, signalled, exit_status, runs, labelVars >>

RunTask == RunTaskFor(ExecDurations)

\* the finally block of the running runner
Reschedule ==
    /\ pc = "resched"
    /\ queue' = Append(queue, ReenterEvent(cur, clock))
    /\ last' = EnterRecord(cur, clock)
    /\ pc' = "loop"
    /\ UNCHANGED << services, idx, clock, interval, periodic_cron_runner,
                    periodic_interval_runner, cur, executing, outcome, accepted,
                    errors, started, lastEnd, curStart, signalled, exit_status,
                    runs, labelVars >>

\* shutdown_handler (lines 153-158), installed before schedule_tasks is
\* called (lines 167-170).  SystemExit is no Exception: raised inside
\* run_task it passes both except clauses, the runner's finally block still
\* enters its event, and the process ends without waiting for the container.
Signal ==
    /\ pc \in {"load", "loop", "sleep", "exec", "resched"}
    /\ signalled' = TRUE
    /\ pc' = ShutdownPc(pc)
    /\ exit_status' = IF pc' = "exited" THEN 0 ELSE exit_status
    /\ IF pc = "exec" /\ pc' = "exited"
       THEN /\ queue' = Append(queue, ReenterEvent(cur, clock))
            /\ last' = EnterRecord(cur, clock)
       ELSE UNCHANGED << queue, last >>
    /\ UNCHANGED << services, idx, clock, interval, periodic_cron_runner,
                    periodic_interval_runner, cur, executing, outcome, accepted,
                    errors, started, lastEnd, curStart, runs, labelVars >>

Next ==
    \/ LoadService
    \/ StartRun
    \/ SchedRun
    \/ Wake
    \/ RunTask
    \/ Reschedule
    \/ Signal

Spec == Init /\ [][Next]_vars

\* ------------------------------------------- executions that take no time
\* compose files in which exactly one service selects the interval policy,
\* with a valid interval; the other services select cron or nothing
InstantIntervals == { <<"2">>, <<"3", "0">> }

InstantOthers ==
    { [k \in {} |-> <<>>],
      [k \in {CRON_KEY} |-> <<"bad">>],
      [k \in {CRON_KEY} |-> <<"*", "*", "*", "*", "*">>] }

InstantConfigs ==
    { c \in UNION { [1..n -> InstantOthers \cup
                               { [k \in {INTERVAL_KEY} |-> i] : i \in InstantIntervals }]
                      : n \in 1..MaxServices } :
        Cardinality({ s \in 1..Len(c) : PolicyOf(c[s]) = "interval" }) = 1 }

InitInstant ==
    /\ services \in InstantConfigs
    /\ pc = "load"
    /\ runs = [s \in 1..Len(services) |-> 0]
    /\ declared = <<>>
    /\ labels_raw = NoLabels
    /\ Boot

\* run_task whose container ends at once
RunTaskInstant == RunTaskFor({0})

NextInstant ==
    \/ LoadService
    \/ StartRun
    \/ SchedRun
    \/ Wake
    \/ RunTaskInstant
    \/ Reschedule
    \/ Signal

SpecInstant == InitInstant /\ [][NextInstant]_vars

\* ------------------------------------------------------------ properties
\* number of events in q that will run service s_name
EventsFor(q, s_name) == Cardinality({i \in 1..Len(q) : q[i].s_name = s_name})

\* s_name has a pending event or is the service of the running runner
Live(s_name) ==
    \/ EventsFor(queue, s_name) >= 1
    \/ pc \in {"exec", "resched"} /\ cur.s_name = s_name

\* C1: whatever run_task's result (exit status 0, non-zero, runner not
\* found, any other error), the runner has entered exactly one event before
\* the loop pops again: until shutdown the queue holds as many events as
\* entries were accepted at every pop, and one less while a runner runs.
C1_RequeueOnEveryOutcome ==
    /\ pc \in {"loop", "sleep"} => Len(queue) = Cardinality(accepted)
    /\ pc \in {"exec", "resched"} => Len(queue) = Cardinality(accepted) - 1

C1_Witness ==
    /\ pc = "loop"
    /\ outcome \in {"notfound", "error"}
    /\ last.op = "resched"
    /\ Cardinality(accepted) = 2
    /\ Len(queue) = 2

\* C2: whenever no unit is executing the queue holds exactly one event for
\* each accepted entry, and the event entered after executing entry E runs E
\* again with the same policy.
C2_OneEventPerEntry ==
    /\ (pc \in {"loop", "sleep"} /\ executing = {}) =>
          \A a \in accepted :
              Cardinality({i \in 1..Len(queue) :
                  queue[i].s_name = a.s_name /\ queue[i].kind = a.kind}) = 1
    /\ (last.op = "resched" /\ pc # "exited") => last.ev.s_name = last.by

\* C3, as a property a finite run refutes: short of shutdown an accepted
\* entry never loses its place in the schedule (a pending event, or being
\* the entry of the running runner), which it needs to be executed again.
C3_EntryStaysScheduled ==
    [][\A a \in accepted :
          (Live(a.s_name) /\ pc' # "exited") => Live(a.s_name)']_vars

DeclaredInterval(s_name) == ParseInt(services[s_name][INTERVAL_KEY]).val


\* C5: the event entered after executing an interval entry with interval n
\* and previous scheduled fire time T carries fire time T + n whatever the
\* execution took, and its delay is clamped at 0: it is due at T + n, or at
\* once when T + n has passed.
C5_IntervalAnchored ==
    (last.op = "resched" /\ last.ev.kind = "interval" /\ pc # "exited") =>
        /\ last.ev.scheduled_time = last.prev + DeclaredInterval(last.by)
        /\ last.ev.time = Max(last.ref, last.prev + DeclaredInterval(last.by))

\* C6: once the handler has seen a termination signal the process has ended
\* with status 0 and no runner is dispatched any more, whether the signal
\* came while sleeping, executing or rescheduling.
C6_NoDispatchAfterShutdown ==
    /\ [](signalled => (pc = "exited" /\ exit_status = 0))
    /\ [][signalled => ~(pc' = "exec" /\ pc # "exec")]_vars

\* the signal arrived while a unit was executing
C6_Witness ==
    /\ signalled
    /\ pc = "exited"
    /\ exit_status = 0
    /\ executing # {}
    /\ last.op = "resched"

\* a unit whose labels select a policy that load accepts / rejects
ParsedIntervals == [s \in IntervalStrs |-> ParseInt(s)]

WellFormedInterval(labels_dict) ==
    /\ ParsedIntervals[labels_dict[INTERVAL_KEY]].ok
    /\ ParsedIntervals[labels_dict[INTERVAL_KEY]].val >= 1

ValidUnit(labels_dict) ==
    \/ Truthy(labels_dict, CRON_KEY) /\ is_valid(labels_dict[CRON_KEY])
    \/ /\ ~Truthy(labels_dict, CRON_KEY)
       /\ Truthy(labels_dict, INTERVAL_KEY)
       /\ WellFormedInterval(labels_dict)

InvalidUnit(labels_dict) ==
    \/ Truthy(labels_dict, CRON_KEY) /\ ~is_valid(labels_dict[CRON_KEY])
    \/ /\ ~Truthy(labels_dict, CRON_KEY)
       /\ Truthy(labels_dict, INTERVAL_KEY)
       /\ ~WellFormedInterval(labels_dict)

\* C7: when no unit of the configuration is a valid entry, schedule_tasks
\* ends at once: nothing is queued, no sleep, no execution, no time passes,
\* and the process ends with status 0.
C7_IdleTermination ==
    (\A i \in 1..Len(services) : ~ValidUnit(services[i])) =>
        /\ pc \in {"load", "done", "exited"}
        /\ queue = <<>>
        /\ started = {}
        /\ executing = {}
        /\ clock = 0
        /\ pc # "load" => exit_status = 0

\* one unit without labels and one rejected unit
C7_Witness ==
    /\ pc = "done"
    /\ exit_status = 0
    /\ ~signalled
    /\ Len(services) = 2
    /\ Cardinality(errors) = 1
    /\ \E i \in 1..2 : DOMAIN services[i] = {}
    /\ accepted = {}

\* C8: a unit with an invalid policy never has an event and is never
\* executed, and loading goes on past it: until the first dispatch every
\* valid unit the loop has passed has exactly one initial event.
C8_InvalidNeverScheduled ==
    /\ \A i \in 1..Len(services) :
          InvalidUnit(services[i]) =>
              /\ EventsFor(queue, i) = 0
              /\ i \notin started
              /\ i \notin executing
              /\ cur.s_name # i
              /\ \A a \in accepted : a.s_name # i
    /\ (pc \in {"load", "loop", "sleep", "done"} /\ started = {}) =>
          \A i \in 1..(idx - 1) :
              ValidUnit(services[i]) => EventsFor(queue, i) = 1

\* an invalid unit is followed by a valid one, which is seeded
C8_Witness ==
    /\ pc = "loop"
    /\ started = {}
    /\ Len(services) = 2
    /\ InvalidUnit(services[1])
    /\ ValidUnit(services[2])
    /\ errors = {1}
    /\ EventsFor(queue, 2) = 1
    /\ Len(queue) = 1

HasPolicy(s_name, kind) == [s_name |-> s_name, kind |-> kind] \in accepted

\* C9 as claimed: a unit whose labels hold the key scheduler.cron is never
\* given the Interval policy; with only scheduler.interval the policy is
\* Interval; with neither key there is no entry and no error.
C9_CronPresentWins ==
    \A i \in 1..(idx - 1) :
        LET labels_dict == services[i] IN
        /\ CRON_KEY \in DOMAIN labels_dict =>
              /\ ~HasPolicy(i, "interval")
              /\ is_valid(labels_dict[CRON_KEY]) => HasPolicy(i, "cron")
        /\ (CRON_KEY \notin DOMAIN labels_dict /\ INTERVAL_KEY \in DOMAIN labels_dict) =>
              /\ ~HasPolicy(i, "cron")
              /\ WellFormedInterval(labels_dict) => HasPolicy(i, "interval")
        /\ DOMAIN labels_dict = {} =>
              /\ ~HasPolicy(i, "cron")
              /\ ~HasPolicy(i, "interval")
              /\ i \notin errors

\* C9 as amended: a non-empty scheduler.cron is used whatever
\* scheduler.interval holds; an absent or empty scheduler.cron with a
\* non-empty scheduler.interval gives the Interval policy; with no non-empty
\* value under either key there is no entry and no error.
C9_NonEmptyCronWins ==
    \A i \in 1..(idx - 1) :
        LET labels_dict == services[i] IN
        /\ Truthy(labels_dict, CRON_KEY) =>
              /\ ~HasPolicy(i, "interval")
              /\ is_valid(labels_dict[CRON_KEY]) => HasPolicy(i, "cron")
        /\ (~Truthy(labels_dict, CRON_KEY) /\ Truthy(labels_dict, INTERVAL_KEY)) =>
              /\ ~HasPolicy(i, "cron")
              /\ WellFormedInterval(labels_dict) => HasPolicy(i, "interval")
        /\ (~Truthy(labels_dict, CRON_KEY) /\ ~Truthy(labels_dict, INTERVAL_KEY)) =>
              /\ ~HasPolicy(i, "cron")
              /\ ~HasPolicy(i, "interval")
              /\ i \notin errors

\* a unit declaring a valid cron expression and a valid interval was loaded
C9_Witness ==
    \E i \in 1..(idx - 1) :
        /\ Truthy(services[i], CRON_KEY)
        /\ Truthy(services[i], INTERVAL_KEY)
        /\ WellFormedInterval(services[i])
        /\ HasPolicy(i, "cron")
        /\ ~HasPolicy(i, "interval")

\* instant t matches the five-field expression c_str
CronMatches(c_str, t) ==
    /\ t % MinuteSecs = 0
    /\ MinuteMatches(c_str[1], (t \div MinuteSecs) % 60)

\* C10: the event a cron entry is seeded with, and every event entered after
\* executing it, is due at the earliest instant matching its expression
\* strictly after the clock read when it is entered (the load time for the
\* seed, the return of run_task afterwards, not the previous fire time);
\* "*/5 * * * *" read at 00:02:00 gives 00:05:00.
C10_CronNextAfterNow ==
    /\ last.ev.kind = "cron" =>
          /\ last.ev.time > last.ref
          /\ CronMatches(last.c_str, last.ev.time)
          /\ \A u \in (last.ref + 1)..(last.ev.time - 1) : ~CronMatches(last.c_str, u)
    /\ (last.ev.kind = "cron" /\ last.op = "seed") => last.ref = 0
    /\ (last.ev.kind = "cron" /\ last.op = "resched"
          /\ pc \in {"loop", "sleep", "exec"}) => last.ref = lastEnd
    /\ get_next(<<"*/5", "*", "*", "*", "*">>, 2 * MinuteSecs) = 5 * MinuteSecs

\* an execution due at 00:01:00 ends at 00:02:10: the next is at 00:03:00
C10_Witness ==
    /\ pc = "loop"
    /\ last.op = "resched"
    /\ last.ev.kind = "cron"
    /\ cur.time = 60
    /\ last.ref = 130
    /\ last.ev.time = 180

\* ------------------------------------------------- the two forms of labels
\* A label string is a sequence of tokens, "=" being one of them.
EQ == "="

EmptyDict == [k \in {} |-> <<>>]

RECURSIVE Join(_)
Join(tokens) == IF tokens = <<>> THEN "" ELSE Head(tokens) \o Join(Tail(tokens))

\* line 90: `label.split("=", 1)` splits at the first "=" of the label
SplitAtLast(label) ==
    CHOOSE i \in 1..Len(label) :
        label[i] = EQ /\ \A j \in (i + 1)..Len(label) : label[j] # EQ

SplitAt(label) ==
    CHOOSE i \in 1..Len(label) :
        label[i] = EQ /\ \A j \in 1..(i - 1) : label[j] # EQ

\* lines 88-91: the loop over a list of labels, starting from labels_dict
RECURSIVE NormalizeList(_, _)
NormalizeList(labels, labels_dict) ==
    IF labels = <<>> THEN labels_dict
    ELSE LET label == Head(labels) IN
         IF \E i \in 1..Len(label) : label[i] = EQ
         THEN LET at == SplitAt(label)
                  key == Join(SubSeq(label, 1, at - 1))
                  value == SubSeq(label, at + 1, Len(label))
              IN NormalizeList(Tail(labels),
                     [k \in DOMAIN labels_dict \cup {key} |->
                        IF k = key THEN value ELSE labels_dict[k]])
         ELSE NormalizeList(Tail(labels), labels_dict)

\* lines 85-94: labels_dict as built from labels_raw, which is a list, a
\* dict or anything else
Normalize(raw) ==
    IF raw.form = "list" THEN NormalizeList(raw.items, EmptyDict)
    ELSE IF raw.form = "dict" THEN raw.items
    ELSE EmptyDict

\* what a unit declares: labels key=value with distinct keys, and words that
\* carry no "="
DeclaredLabels ==
    { [eq |-> TRUE, key |-> CRON_KEY, value |-> <<"*", "*", "*", "*", "*">>],
      [eq |-> TRUE, key |-> CRON_KEY, value |-> <<>>],
      [eq |-> TRUE, key |-> INTERVAL_KEY, value |-> <<"6", "0">>],
      [eq |-> TRUE, key |-> INTERVAL_KEY, value |-> <<"6", EQ, "0">>],
      [eq |-> TRUE, key |-> "", value |-> <<"x">>],
      [eq |-> FALSE, key |-> CRON_KEY, value |-> <<>>] }

Declarations ==
    { d \in UNION { [1..n -> DeclaredLabels] : n \in 0..MaxLabels } :
        \A i, j \in 1..Len(d) : (d[i].eq /\ d[j].eq /\ d[i].key = d[j].key) => i = j }

\* the declaration written as a list of strings
AsList(d) ==
    [i \in 1..Len(d) |->
        IF d[i].eq THEN <<d[i].key, EQ>> \o d[i].value ELSE <<d[i].key>>]

\* the declaration written as a mapping: the labels that have a value
AsDict(d) ==
    [k \in {d[i].key : i \in {j \in 1..Len(d) : d[j].eq}} |->
        d[CHOOSE i \in 1..Len(d) : d[i].eq /\ d[i].key = k].value]

\* the labels field of the one unit of the file: a list, a mapping, or a
\* scalar in their place
RawForms(d) ==
    { [form |-> "list", items |-> AsList(d)],
      [form |-> "dict", items |-> AsDict(d)],
      [form |-> "other", items |-> <<>>] }

InitLabels ==
    /\ declared \in Declarations
    /\ labels_raw \in RawForms(declared)
    /\ services = << EmptyDict >>
    /\ pc = "labels"
    /\ runs = [s \in 1..1 |-> 0]
    /\ Boot

\* lines 84-94 for the unit, before its policy is read
NormalizeLabels ==
    /\ pc = "labels"
    /\ services' = << Normalize(labels_raw) >>
    /\ pc' = "load"
    /\ UNCHANGED << idx, clock, queue, interval, periodic_cron_runner,
                    periodic_interval_runner, cur, executing, outcome, accepted,
                    errors, started, lastEnd, curStart, last, signalled,
                    exit_status, runs, labelVars >>

NextLabels ==
    \/ NormalizeLabels
    \/ LoadService
    \/ StartRun
    \/ SchedRun
    \/ Wake
    \/ RunTask
    \/ Reschedule
    \/ Signal

SpecLabels == InitLabels /\ [][NextLabels]_vars

\* C11: when a single service selects the interval policy, with n seconds,
\* and executions take no time, its first execution starts at time 0 and its
\* k-th later one at k * n: every execution starts at its own reference time,
\* a multiple of n, and the first MaxRuns - 1 of them at 0, n, 2n, ...
SingleIntervalEntry(s_name) ==
    /\ s_name \in 1..Len(services)
    /\ \A t \in 1..Len(services) : PolicyOf(services[t]) = "interval" <=> t = s_name
    /\ IntervalAccepted(ParseInt(services[s_name][INTERVAL_KEY]))

Dispatched == pc = "loop" /\ pc' = "exec"

C12_FireTimeOrder ==
    [][Dispatched =>
        /\ \A j \in 1..Len(queue) :
              /\ cur'.time <= queue[j].time
              /\ queue[j].priority = cur'.priority
        /\ LET first == CHOOSE i \in 1..Len(queue) :
                            /\ queue[i].time = cur'.time
                            /\ \A j \in 1..(i - 1) : queue[j].time # cur'.time
           IN cur' = queue[first] /\ queue' = RemoveAt(queue, first)
        /\ cur'.time <= clock
        /\ cur.kind # "none" => cur.time <= cur'.time]_vars

\* two entries seeded for the same time: the one seeded first runs first
C12_Witness ==
    /\ pc = "exec"
    /\ Len(queue) = 1
    /\ queue[1].time = cur.time
    /\ cur.s_name = 1 /\ queue[1].s_name = 2
    /\ runs[1] = 1 /\ runs[2] = 0

\* C13: when the process has exited on a signal no container it started is
\* still running: a signal that arrives during an execution ends the process
\* only after that execution has completed.
C13_ExitAfterTaskCompletes == pc = "exited" => executing = {}

\* C14: once at least one event was seeded the loop never ends on its own:
\* the queue is not empty whenever the loop looks at it, the process never
\* reaches the end of schedule_tasks, and it ends only on a shutdown signal.
C14_LoopNeverFinishes ==
    accepted # {} =>
        /\ pc # "done"
        /\ pc = "loop" => queue # <<>>
        /\ exit_status # NoStatus => (signalled /\ pc = "exited")

\* the loop looks at the queue after the only entry's runner failed to find
\* the container runtime and re-entered its event
C14_Witness ==
    /\ pc = "loop"
    /\ Cardinality(accepted) = 1
    /\ outcome = "notfound"
    /\ last.op = "resched"
    /\ Len(queue) = 1

\* C15: the interval a runner adds when it reschedules an interval entry is
\* the interval that entry declared, whatever other services were parsed.
C15_OwnIntervalAtReschedule ==
    (pc = "resched" /\ cur.kind = "interval") =>
        interval = DeclaredInterval(cur.s_name)

\* C16: after an execution of an interval entry that ran past its next slot
\* T + n, the event entered executes the same entry, its reference time is
\* T + n (no slot is skipped), and it is due at once while T + n is not
\* later than the clock.
Overran == pc = "resched" /\ cur.kind = "interval" /\ curStart < clock

C16_CatchUpAfterOverrun ==
    [][(Overran /\ pc' = "loop") =>
        LET n == DeclaredInterval(cur.s_name)
            ev == queue'[Len(queue')]
        IN /\ ev.s_name = cur.s_name
           /\ ev.scheduled_time = cur.scheduled_time + n
           /\ ev.time = Max(clock, cur.scheduled_time + n)]_vars

\* C17: two successive dispatches of one cron entry never have the same
\* fire time: the later one's fire time is strictly greater.
C17_CronFireTimesIncrease ==
    [][(Dispatched /\ cur.kind = "cron" /\ cur'.kind = "cron"
            /\ cur'.s_name = cur.s_name) => cur.time < cur'.time]_vars

\* C18: a labels field written as a list of "key=value" strings gives the
\* mapping the same declaration gives when written as a mapping, each string
\* being split at its first "=" and strings without "=" being left out, and
\* so the same policy decision; a labels field that is neither gives the
\* empty mapping and the unit is not scheduled.
ExpectedLabels ==
    IF labels_raw.form \in {"list", "dict"} THEN AsDict(declared) ELSE EmptyDict

C18_SameMappingFromBothForms ==
    pc # "labels" =>
        /\ services[1] = ExpectedLabels
        /\ labels_raw.form = "other" => (queue = <<>> /\ errors = {})
        /\ idx > 1 =>
              LET d == ExpectedLabels IN
              /\ HasPolicy(1, "cron") <=>
                    (PolicyOf(d) = "cron" /\ is_valid(d[CRON_KEY]))
              /\ HasPolicy(1, "interval") <=>
                    (PolicyOf(d) = "interval"
                        /\ IntervalAccepted(ParseInt(d[INTERVAL_KEY])))
              /\ 1 \in errors <=> (PolicyOf(d) # "none" /\ accepted = {})

\* a list holding a word without "=" and an interval whose value holds a
\* second "=" was normalized and the unit was rejected for its value "6=0"
C18_Witness ==
    /\ pc = "done"
    /\ labels_raw.form = "list"
    /\ \E i \in 1..Len(declared) : ~declared[i].eq
    /\ INTERVAL_KEY \in DOMAIN services[1]
    /\ services[1][INTERVAL_KEY] = <<"6", EQ, "0">>
    /\ errors = {1}
====
